---- MODULE Spec2Model ----
(***************************************************************************)
(* reddit2eink (src/src/main.rs): fetch the latest posts of a subreddit    *)
(* with their comment trees, render them to one markdown document, write   *)
(* it, and optionally run ebook-convert on it.                             *)
(*                                                                         *)
(* Text is a sequence of one-character strings, so that quoting, line      *)
(* splitting, replacement, path extensions and shell tokenization are      *)
(* computed character by character as the code computes them.              *)
(***************************************************************************)
EXTENDS Naturals, Sequences, FiniteSets, TLC

VARIABLES
    opts,         \* main: the parsed command line (struct Opts)
    pc,           \* main: position in the run
    latest,       \* main: the listing returned by subreddit.latest
    idx,          \* main: 1-based index of the post the for loop is at
    output,       \* main: the document string being grown
    post_output,  \* parse_post: its local output string across the await
    requests,     \* every network request issued, in order
    responses,    \* every answer to a network request, in order
    received,     \* the comment forests received, one per rendered post
    file,         \* the intermediate file on disk
    writes,       \* every call of write_markdown_file
    converter_calls, \* number of calls of run_ebook_converter
    spawns,       \* every Command::output() call, with its argv
    stdout,       \* what the verbose branch printed
    err,          \* the failure the process ended with
    input,        \* pure-function specifications: the argument
    result,       \* pure-function specifications: the value computed
    applied       \* pure-function specifications: number of applications

vars == <<opts, pc, latest, idx, output, post_output, requests, responses,
          received, file, writes, converter_calls, spawns, stdout, err,
          input, result, applied>>

pipeline_vars == <<opts, pc, latest, idx, output, post_output, requests,
                   responses, received, file, writes, converter_calls, spawns,
                   stdout, err>>

pure_vars == <<input, result, applied>>

(***************************************************************************)
(* Bounds of the model.                                                    *)
(***************************************************************************)
MaxLen == 4        \* longest text handed to quote
MaxApply == 3      \* most nested applications of quote
MaxNodes == 3      \* most nodes of a comment tree handed to parse_comment
MaxDepthArg == 1   \* largest depth argument handed to parse_comment
MaxChunks == 3     \* most chunks of a text handed to clean_markdown
MaxPosts == 2      \* most posts of a listing
MaxPartial == 1    \* most bytes a failed write_all is modelled to leave

(***************************************************************************)
(* Strings.                                                                *)
(***************************************************************************)
NL == <<"\n">>

\* All sequences over S of length at most n.
SeqsUpTo(S, n) == UNION {[1..k -> S] : k \in 0..n}

\* Does pat occur in s at position i?
MatchAt(s, pat, i) ==
    /\ i >= 1
    /\ i + Len(pat) - 1 <= Len(s)
    /\ \A k \in 1..Len(pat) : s[i + k - 1] = pat[k]

\* The least element of a non-empty set of numbers.
Least(S) == CHOOSE j \in S : \A k \in S : j <= k

\* The first position from i on where pat occurs in s, 0 if there is none.
NextMatch(s, pat, i) ==
    LET found == {j \in i..Len(s) : MatchAt(s, pat, j)}
    IN  IF found = {} THEN 0 ELSE Least(found)

\* str::replace(pat, to): every non-overlapping match, found left to right;
\* the text up to a match is copied, then `to`, and the search goes on
\* after the match. `all` holds every position where pat occurs in s.
RECURSIVE ReplaceFrom(_, _, _, _, _)
ReplaceFrom(s, pat, to, last_end, all) ==
    LET rest == {j \in all : j >= last_end}
    IN  IF rest = {} THEN SubSeq(s, last_end, Len(s))
        ELSE SubSeq(s, last_end, Least(rest) - 1) \o to
                \o ReplaceFrom(s, pat, to, Least(rest) + Len(pat), all)

Replace(s, pat, to) ==
    ReplaceFrom(s, pat, to, 1, {j \in 1..Len(s) : MatchAt(s, pat, j)})

\* The lines of s: the maximal runs between newlines (k newlines, k+1 lines).
RECURSIVE LinesFrom(_, _)
LinesFrom(s, i) ==
    LET nl == NextMatch(s, <<"\n">>, i)
    IN  IF nl = 0 THEN <<SubSeq(s, i, Len(s))>>
        ELSE <<SubSeq(s, i, nl - 1)>> \o LinesFrom(s, nl + 1)

Lines(s) == LinesFrom(s, 1)

\* n quote markers.
Markers(n) == [k \in 1..n |-> ">"]

(***************************************************************************)
(* fn quote                                                                *)
(***************************************************************************)
\* A quote that marks only the lines after the first.
quote_NoFirstMarker(str) == Replace(str, NL, <<"\n", ">">>)

quote(str) == Replace(<<">">> \o str, NL, <<"\n", ">">>)

(***************************************************************************)
(* Option<T>, and the outcome of a computation that may panic.             *)
(***************************************************************************)
None == [some |-> FALSE, val |-> <<>>]
Some(v) == [some |-> TRUE, val |-> v]

Ok(v) == [ok |-> TRUE, val |-> v]
Panic == [ok |-> FALSE, val |-> <<>>]

(***************************************************************************)
(* SubredditCommentsData as parse_comment reads it: author, body, replies. *)
(* replies is None, the Str sentinel, or Reply with the children.          *)
(***************************************************************************)
NoReplies == [kind |-> "None", children |-> <<>>]
StrReplies == [kind |-> "Str", children |-> <<>>]
Reply(children) == [kind |-> "Reply", children |-> children]

Comment(author, body, replies) ==
    [author |-> author, body |-> body, replies |-> replies]

(***************************************************************************)
(* fn parse_comment                                                        *)
(***************************************************************************)
\* An output string that starts empty.
comment_separator_Empty == <<>>

\* line 53: String::from("\n\n")
comment_separator == <<"\n", "\n">>

\* lines 55-59: the block of an authored comment before its replies.
comment_head(author, body) ==
    comment_separator \o <<"*", "*", " ">> \o author
        \o <<" ", "-", "-", " ", "*", "*", "\n">> \o body \o NL

RECURSIVE parse_comment(_, _)
RECURSIVE parse_replies(_, _, _, _)

\* lines 62-65: the for loop over replies.data.children, from child i on,
\* with out the output so far; a panic in a child unwinds the loop.
parse_replies(children, depth, i, out) ==
    IF i > Len(children) THEN Ok(out)
    ELSE LET rep_output == parse_comment(children[i], depth + 1)
         IN  IF rep_output.ok
             THEN parse_replies(children, depth, i + 1, out \o rep_output.val)
             ELSE Panic

parse_comment(comment, depth) ==
    IF comment.author.some
    THEN IF ~comment.body.some
         THEN Panic    \* line 58: comment.body.as_ref().unwrap()
         ELSE LET head == comment_head(comment.author.val, comment.body.val)
                  out == IF comment.replies.kind = "Reply"
                         THEN parse_replies(comment.replies.children, depth, 1, head)
                         ELSE Ok(head)
              IN  IF out.ok THEN Ok(quote(out.val)) ELSE Panic
    ELSE Ok(quote(comment_separator))

(***************************************************************************)
(* fn clean_markdown                                                       *)
(***************************************************************************)
\* line 90: the zero-width-space artifact "&amp;#x200B;"
Artifact == <<"&", "a", "m", "p", ";", "#", "x", "2", "0", "0", "B", ";">>

\* A clean-up that replaces the first occurrence only (replacen(.., 1)).
ReplaceFirst(s, pat, to) ==
    LET start == NextMatch(s, pat, 1)
    IN  IF start = 0 THEN s
        ELSE SubSeq(s, 1, start - 1) \o to \o SubSeq(s, start + Len(pat), Len(s))

clean_markdown_FirstOnly(str) == ReplaceFirst(str, Artifact, NL)

clean_markdown(str) == Replace(str, Artifact, NL)

(***************************************************************************)
(* std::path::Path, for a path of one component (no separator).            *)
(***************************************************************************)
\* Path::file_name: none for the empty path, "." and "..".
file_name(path) ==
    IF path = <<>> \/ path = <<".">> \/ path = <<".", ".">>
    THEN None
    ELSE Some(path)

\* The position of the last "." of name, 0 if it has none.
LastDot(name) ==
    IF \E i \in 1..Len(name) : name[i] = "."
    THEN CHOOSE i \in 1..Len(name) :
            /\ name[i] = "."
            /\ \A j \in (i + 1)..Len(name) : name[j] # "."
    ELSE 0

\* std::path::rsplit_file_at_dot: (before, after) the last dot. A name with
\* no dot is the `after` part alone; a name whose only dot leads it has no
\* extension.
rsplit_file_at_dot(name) ==
    LET d == LastDot(name)
    IN  IF name = <<".", ".">> THEN [before |-> Some(name), after |-> None]
        ELSE IF d = 0 THEN [before |-> None, after |-> Some(name)]
        ELSE IF d = 1 THEN [before |-> Some(name), after |-> None]
        ELSE [before |-> Some(SubSeq(name, 1, d - 1)),
              after |-> Some(SubSeq(name, d + 1, Len(name)))]

\* Path::file_stem: before.or(after)
file_stem(path) ==
    IF ~file_name(path).some THEN None
    ELSE LET sp == rsplit_file_at_dot(file_name(path).val)
         IN  IF sp.before.some THEN sp.before ELSE sp.after

\* An extension test that takes whatever follows the last dot.
extension_AfterAnyDot(path) ==
    IF LastDot(path) = 0 THEN None
    ELSE Some(SubSeq(path, LastDot(path) + 1, Len(path)))

\* Path::extension: before.and(after)
extension(path) ==
    IF ~file_name(path).some THEN None
    ELSE LET sp == rsplit_file_at_dot(file_name(path).val)
         IN  IF sp.before.some THEN sp.after ELSE None

\* Path::with_extension: the path unchanged when it has no file name, else
\* the file stem, a dot and the extension.
with_extension(path, ext) ==
    IF ~file_stem(path).some THEN path
    ELSE file_stem(path).val \o (IF ext = <<>> THEN <<>> ELSE <<".">> \o ext)

\* line 136, line 140: the extension of the intermediate file
MD == <<"m", "d">>

\* The exit statuses a converter process is modelled to end with.
ExitStatuses == {0, 1}

(***************************************************************************)
(* shell_words::split, called at line 102: the words of a command line     *)
(* under the POSIX shell's quoting rules, or an error when a quote or a    *)
(* quoted escape is left open at the end of the input.                     *)
(***************************************************************************)
IsBlank(c) == c \in {" ", "\t", "\n"}

\* The grave accent, which a TLA+ string cannot hold; no input here has one.
BACKTICK == "grave"

\* The tokenizer's state: its State, the word being built, the words done.
Machine(state, word, words) == [state |-> state, word |-> word, words |-> words]

\* One turn of split's loop on the character c.
split_step(m, c) ==
    CASE m.state = "Delimiter" ->
            IF c = "'" THEN Machine("SingleQuoted", m.word, m.words)
            ELSE IF c = "\"" THEN Machine("DoubleQuoted", m.word, m.words)
            ELSE IF c = "\\" THEN Machine("Backslash", m.word, m.words)
            ELSE IF IsBlank(c) THEN Machine("Delimiter", m.word, m.words)
            ELSE IF c = "#" THEN Machine("Comment", m.word, m.words)
            ELSE Machine("Unquoted", Append(m.word, c), m.words)
      [] m.state = "Backslash" ->
            IF c = "\n" THEN Machine("Delimiter", m.word, m.words)
            ELSE Machine("Unquoted", Append(m.word, c), m.words)
      [] m.state = "Unquoted" ->
            IF c = "'" THEN Machine("SingleQuoted", m.word, m.words)
            ELSE IF c = "\"" THEN Machine("DoubleQuoted", m.word, m.words)
            ELSE IF c = "\\" THEN Machine("UnquotedBackslash", m.word, m.words)
            ELSE IF IsBlank(c) THEN Machine("Delimiter", <<>>, Append(m.words, m.word))
            ELSE Machine("Unquoted", Append(m.word, c), m.words)
      [] m.state = "UnquotedBackslash" ->
            IF c = "\n" THEN Machine("Unquoted", m.word, m.words)
            ELSE Machine("Unquoted", Append(m.word, c), m.words)
      [] m.state = "SingleQuoted" ->
            IF c = "'" THEN Machine("Unquoted", m.word, m.words)
            ELSE Machine("SingleQuoted", Append(m.word, c), m.words)
      [] m.state = "DoubleQuoted" ->
            IF c = "\"" THEN Machine("Unquoted", m.word, m.words)
            ELSE IF c = "\\" THEN Machine("DoubleQuotedBackslash", m.word, m.words)
            ELSE Machine("DoubleQuoted", Append(m.word, c), m.words)
      [] m.state = "DoubleQuotedBackslash" ->
            IF c = "\n" THEN Machine("DoubleQuoted", m.word, m.words)
            ELSE IF c \in {"$", BACKTICK, "\"", "\\"}
                 THEN Machine("DoubleQuoted", Append(m.word, c), m.words)
            ELSE Machine("DoubleQuoted", Append(Append(m.word, "\\"), c), m.words)
      [] m.state = "Comment" ->
            IF c = "\n" THEN Machine("Delimiter", m.word, m.words)
            ELSE Machine("Comment", m.word, m.words)

\* The loop's last turn, at the end of the input: the words, or Panic for
\* shell_words::ParseError (the caller's expect).
split_end(m) ==
    CASE m.state \in {"Delimiter", "Comment"} -> Ok(m.words)
      [] m.state \in {"Backslash", "UnquotedBackslash"} ->
            Ok(Append(m.words, Append(m.word, "\\")))
      [] m.state = "Unquoted" -> Ok(Append(m.words, m.word))
      [] m.state \in {"SingleQuoted", "DoubleQuoted", "DoubleQuotedBackslash"} ->
            Panic

\* enum State of shell_words
States ==
    {"Delimiter", "Backslash", "Unquoted", "UnquotedBackslash", "SingleQuoted",
     "DoubleQuoted", "DoubleQuotedBackslash", "Comment"}

\* The loop's turns on s[lo..hi] in order, from the state m. The range is
\* halved, and the state after the first half looked at before the second
\* half starts, only to keep the evaluation shallow.
RECURSIVE split_run(_, _, _, _)
split_run(s, lo, hi, m) ==
    IF lo > hi THEN m
    ELSE IF lo = hi THEN split_step(m, s[lo])
    ELSE LET mid == (lo + hi) \div 2
             left == split_run(s, lo, mid, m)
         IN  IF left.state \in States
             THEN split_run(s, mid + 1, hi, left)
             ELSE left

split(s) == split_end(split_run(s, 1, Len(s), Machine("Delimiter", <<>>, <<>>)))

(***************************************************************************)
(* The pipeline's variables while a pure-function specification runs, and  *)
(* the pure-function variables while the pipeline runs.                    *)
(***************************************************************************)
PipelineUnused ==
    /\ opts = <<>>
    /\ pc = "unused"
    /\ latest = <<>>
    /\ idx = 0
    /\ output = <<>>
    /\ post_output = <<>>
    /\ requests = <<>>
    /\ responses = <<>>
    /\ received = <<>>
    /\ file = <<>>
    /\ writes = <<>>
    /\ converter_calls = 0
    /\ spawns = <<>>
    /\ stdout = <<>>
    /\ err = "none"

PureUnused ==
    /\ input = <<>>
    /\ result = <<>>
    /\ applied = 0

(***************************************************************************)
(* fn parse_post, fn write_markdown_file, fn run_ebook_converter, fn main  *)
(***************************************************************************)
\* lines 120-127: the document header for a subreddit
Header(subreddit) ==
    <<"-", "-", "-", "\n", "t", "i", "t", "l", "e", ":", " ", "/", "r", "/">>
        \o subreddit \o <<"\n", "-", "-", "-", "\n", "\n">>

\* A post header with the title and the text run together.
post_head_NoNewline(post) == <<"#">> \o post.title \o post.selftext

\* lines 77-80: "#" + title + "\n" + selftext
post_head(post) == <<"#">> \o post.title \o NL \o post.selftext

\* lines 83-85: the for loop over comments.data.children, from comment i on,
\* with out the output so far; a panic in parse_comment unwinds the loop.
RECURSIVE parse_post_comments(_, _, _)
parse_post_comments(children, i, out) ==
    IF i > Len(children) THEN Ok(out)
    ELSE LET c == parse_comment(children[i], 0)
         IN  IF c.ok THEN parse_post_comments(children, i + 1, out \o c.val)
             ELSE Panic

\* struct Opts defaults, lines 32 and 38
EbookConvertDefault == <<"/", "u", "s", "r", "/", "b", "i", "n", "/", "e", "b", "o", "o", "k", "-", "c", "o", "n", "v", "e", "r", "t">>

ConverterArgsDefault ==
    <<"-", "-", "c", "h", "a", "p", "t", "e", "r", " ", "\"", "/", "/",
      "h", ":", "h", "1", "\"", " ", "-", "-", "s", "m", "a", "r", "t",
      "e", "n", "-", "p", "u", "n", "c", "t", "u", "a", "t", "i", "o", "n",
      " ", "-", "-", "m", "a", "r", "k", "d", "o", "w", "n", "-", "e", "x",
      "t", "e", "n", "s", "i", "o", "n", "s", " ", "m", "e", "t", "a">>

\* The command lines the model runs with.
Subreddits == {<<"e", "i", "n", "k">>}

OutputPaths ==
    { <<"b", ".", "m", "d">>,
      <<"b", ".", "e", "p", "u", "b">>,
      <<"b">>,
      <<".", "m", "d">>,
      <<"b", ".", "x", ".", "m", "d">>,
      <<>> }

ConverterArgs ==
    { ConverterArgsDefault,
      <<>>,
      <<"-", "a", " ", "'", "b", " ", "c", "'", " ", "d", "\\", " ", "e">>,
      <<"-", "a", " ", "\"", "b">> }

OptsSet ==
    [ subreddit : Subreddits,
      output : OutputPaths,
      posts : {MaxPosts},
      ebook_convert : {EbookConvertDefault},
      converter_args : ConverterArgs,
      verbose : BOOLEAN ]

\* What the remote may answer: the posts of a listing (SubmissionsData as
\* parse_post reads it) and the comment forest of a post.
PostHello == [title |-> <<"H", "e", "l", "l", "o">>, selftext |-> <<"W", "o", "r", "l", "d">>]
PostArtifact == [title |-> <<"T">>, selftext |-> <<"a">> \o Artifact \o <<"b">>]
PostKinds == {PostHello, PostArtifact}

\* A listing of the kinds ks: post i has id i.
Listing(ks) ==
    [i \in 1..Len(ks) |->
        [id |-> i, title |-> ks[i].title, selftext |-> ks[i].selftext]]

Listings == {Listing(ks) : ks \in SeqsUpTo(PostKinds, MaxPosts)}

CommentAlice == Comment(Some(<<"a", "l", "i", "c", "e">>), Some(<<"H", "i">>), NoReplies)
CommentDeleted == Comment(None, None, StrReplies)
CommentThread ==
    Comment(Some(<<"b", "o">>), Some(<<"Y", "o">>), Reply(<<CommentAlice, CommentDeleted>>))
CommentNoBody == Comment(Some(<<"e", "v">>), None, NoReplies)

Forests ==
    { <<>>,
      <<CommentAlice>>,
      <<CommentDeleted, CommentThread>>,
      <<CommentAlice, CommentNoBody>> }

\* The network requests issued and not yet answered.
Outstanding == Len(requests) - Len(responses)

NoFile == [exists |-> FALSE, path |-> <<>>, content |-> <<>>]

Min(a, b) == IF a < b THEN a ELSE b

InitMain ==
    /\ PureUnused
    /\ opts \in OptsSet
    /\ pc = "start"
    /\ latest = <<>>
    /\ idx = 0
    /\ output = <<>>
    /\ post_output = <<>>
    /\ requests = <<>>
    /\ responses = <<>>
    /\ received = <<>>
    /\ file = NoFile
    /\ writes = <<>>
    /\ converter_calls = 0
    /\ spawns = <<>>
    /\ stdout = <<>>
    /\ err = "none"

\* lines 119-130: build the header, ask for the latest posts, suspend.
Main_Start ==
    /\ pc = "start"
    /\ output' = Header(opts.subreddit)
    /\ requests' = Append(requests, [kind |-> "latest", id |-> 0])
    /\ pc' = "await_latest"
    /\ UNCHANGED <<opts, latest, idx, post_output, responses, received, file, writes,
                   converter_calls, spawns, stdout, err, pure_vars>>

\* line 130-131: the listing arrives; the for loop starts at its first post.
Latest_Ok ==
    /\ pc = "await_latest"
    /\ \E listing \in Listings :
          /\ Len(listing) <= opts.posts
          /\ latest' = listing
    /\ idx' = 1
    /\ responses' = Append(responses, [kind |-> "latest", id |-> 0, ok |-> TRUE])
    /\ pc' = "posts"
    /\ UNCHANGED <<opts, output, post_output, requests, received, file, writes,
                   converter_calls, spawns, stdout, err, pure_vars>>

\* line 130: the `?` returns the listing's RouxError from main.
Latest_Err ==
    /\ pc = "await_latest"
    /\ responses' = Append(responses, [kind |-> "latest", id |-> 0, ok |-> FALSE])
    /\ pc' = "error"
    /\ err' = "RouxError: latest"
    /\ UNCHANGED <<opts, latest, idx, output, post_output, requests, received,
                   file, writes, converter_calls, spawns, stdout, pure_vars>>

\* lines 131-132, 77-82: for the next post, build its header, ask for its
\* comments, suspend.
ParsePost_Request ==
    /\ pc = "posts"
    /\ idx <= Len(latest)
    /\ post_output' = post_head(latest[idx])
    /\ requests' = Append(requests, [kind |-> "comments", id |-> latest[idx].id])
    /\ pc' = "await_comments"
    /\ UNCHANGED <<opts, latest, idx, output, responses, received, file, writes,
                   converter_calls, spawns, stdout, err, pure_vars>>

\* The post's text put in front of the document.
Comments_Ok_Prepend ==
    /\ pc = "await_comments"
    /\ \E forest \in Forests :
          LET text == parse_post_comments(forest, 1, post_output)
          IN  /\ received' = Append(received, forest)
              /\ IF text.ok
                 THEN /\ output' = text.val \o output
                      /\ idx' = idx + 1
                      /\ pc' = "posts"
                      /\ err' = err
                 ELSE /\ pc' = "error"
                      /\ err' = "panic: unwrap on a None body"
                      /\ UNCHANGED <<output, idx>>
    /\ post_output' = <<>>
    /\ responses' = Append(responses, [kind |-> "comments", id |-> latest[idx].id,
                                        ok |-> TRUE])
    /\ UNCHANGED <<opts, latest, requests, file, writes, converter_calls,
                   spawns, stdout, pure_vars>>

\* lines 82-86, 132: the comments arrive; render them after the post's
\* header and push the post's text on the document, or panic on an authored
\* comment without a body.
Comments_Ok ==
    /\ pc = "await_comments"
    /\ \E forest \in Forests :
          LET text == parse_post_comments(forest, 1, post_output)
          IN  /\ received' = Append(received, forest)
              /\ IF text.ok
                 THEN /\ output' = output \o text.val
                      /\ idx' = idx + 1
                      /\ pc' = "posts"
                      /\ err' = err
                 ELSE /\ pc' = "error"
                      /\ err' = "panic: unwrap on a None body"
                      /\ UNCHANGED <<output, idx>>
    /\ post_output' = <<>>
    /\ responses' = Append(responses, [kind |-> "comments", id |-> latest[idx].id,
                                        ok |-> TRUE])
    /\ UNCHANGED <<opts, latest, requests, file, writes, converter_calls,
                   spawns, stdout, pure_vars>>

\* A failed comment fetch that skips the post and goes on (best effort).
Comments_Err_BestEffort ==
    /\ pc = "await_comments"
    /\ post_output' = <<>>
    /\ responses' = Append(responses, [kind |-> "comments", id |-> latest[idx].id,
                                        ok |-> FALSE])
    /\ idx' = idx + 1
    /\ pc' = "posts"
    /\ UNCHANGED <<opts, latest, output, requests, received, file, writes,
                   converter_calls, spawns, stdout, err, pure_vars>>

\* lines 82, 132: the `?`s return the comment fetch's RouxError from main.
Comments_Err ==
    /\ pc = "await_comments"
    /\ post_output' = <<>>
    /\ responses' = Append(responses, [kind |-> "comments", id |-> latest[idx].id,
                                        ok |-> FALSE])
    /\ pc' = "error"
    /\ err' = "RouxError: comments"
    /\ UNCHANGED <<opts, latest, idx, output, requests, received, file, writes,
                   converter_calls, spawns, stdout, pure_vars>>

\* line 136
md_path == with_extension(opts.output, MD)

\* line 140: is the converter wanted?
wants_converter == extension(opts.output) # Some(MD)

\* A write that goes to the requested path itself.
write_target_Requested == opts.output

\* lines 136-138: the path write_markdown_file is called with
write_target == md_path

\* The for loop is over.
AtWrite == pc = "posts" /\ idx > Len(latest)

\* lines 135-140, 93-97: the file is created and the cleaned document
\* written to it; main goes on to the extension test.
Write_Ok ==
    /\ AtWrite
    /\ file_name(write_target).some
    /\ writes' = Append(writes, [path |-> write_target,
                                 text |-> clean_markdown(output), ok |-> TRUE])
    /\ file' = [exists |-> TRUE, path |-> write_target,
                content |-> clean_markdown(output)]
    /\ pc' = IF wants_converter THEN "convert" ELSE "done"
    /\ UNCHANGED <<opts, latest, idx, output, post_output, requests, responses,
                   received, converter_calls, spawns, stdout, err, pure_vars>>

\* lines 95, 138: File::create fails (always so for a path with no file
\* name); the expect panics.
Write_CreateErr ==
    /\ AtWrite
    /\ writes' = Append(writes, [path |-> write_target,
                                 text |-> clean_markdown(output), ok |-> FALSE])
    /\ pc' = "error"
    /\ err' = "panic: cannot write markdown to output file"
    /\ UNCHANGED <<opts, latest, idx, output, post_output, requests, responses,
                   received, file, converter_calls, spawns, stdout, pure_vars>>

\* lines 96, 138: write_all fails after the file was created, leaving a
\* proper prefix of the text; the expect panics.
Write_WriteErr ==
    /\ AtWrite
    /\ file_name(write_target).some
    /\ \E k \in 0..Min(MaxPartial, Len(clean_markdown(output)) - 1) :
          file' = [exists |-> TRUE, path |-> write_target,
                   content |-> SubSeq(clean_markdown(output), 1, k)]
    /\ writes' = Append(writes, [path |-> write_target,
                                 text |-> clean_markdown(output), ok |-> FALSE])
    /\ pc' = "error"
    /\ err' = "panic: cannot write markdown to output file"
    /\ UNCHANGED <<opts, latest, idx, output, post_output, requests, responses,
                   received, converter_calls, spawns, stdout, pure_vars>>

\* lines 103-106: the program, then md_path, opts.output and the extra args
converter_argv(extra_args) ==
    <<opts.ebook_convert, md_path, opts.output>> \o extra_args

\* lines 141, 101-102: shell_words::split fails and its expect panics,
\* before any process is spawned.
Convert_SplitErr ==
    /\ pc = "convert"
    /\ ~split(opts.converter_args).ok
    /\ converter_calls' = converter_calls + 1
    /\ pc' = "error"
    /\ err' = "panic: cannot parse convert arguments"
    /\ UNCHANGED <<opts, latest, idx, output, post_output, requests, responses,
                   received, file, writes, spawns, stdout, pure_vars>>

\* lines 103-107, 141: Command::output fails to start the converter; the `?`
\* returns the error and main's expect panics.
Convert_SpawnErr ==
    /\ pc = "convert"
    /\ split(opts.converter_args).ok
    /\ converter_calls' = converter_calls + 1
    /\ spawns' = Append(spawns, [argv |-> converter_argv(split(opts.converter_args).val),
                                 started |-> FALSE, status |-> 0])
    /\ pc' = "error"
    /\ err' = "panic: Cannot run ebook-convert command"
    /\ UNCHANGED <<opts, latest, idx, output, post_output, requests, responses,
                   received, file, writes, stdout, pure_vars>>

\* lines 103-114, 141-143: the converter runs and exits with some status;
\* the status is printed when verbose and otherwise not looked at, and main
\* returns Ok.
Convert_Exit ==
    /\ pc = "convert"
    /\ split(opts.converter_args).ok
    /\ converter_calls' = converter_calls + 1
    /\ \E status \in ExitStatuses :
          /\ spawns' = Append(spawns,
                              [argv |-> converter_argv(split(opts.converter_args).val),
                               started |-> TRUE, status |-> status])
          /\ stdout' = IF opts.verbose
                       THEN Append(stdout, [ebook_convert_status |-> status])
                       ELSE stdout
    /\ pc' = "done"
    /\ UNCHANGED <<opts, latest, idx, output, post_output, requests, responses,
                   received, file, writes, err, pure_vars>>

Next ==
    \/ Main_Start
    \/ Latest_Ok
    \/ Latest_Err
    \/ ParsePost_Request
    \/ Comments_Ok
    \/ Comments_Err
    \/ Write_Ok
    \/ Write_CreateErr
    \/ Write_WriteErr
    \/ Convert_SplitErr
    \/ Convert_SpawnErr
    \/ Convert_Exit

Spec == InitMain /\ [][Next]_vars

\* The process's exit status: 0 from Ok(()), 1 from an Err returned by main,
\* 101 from a panic.
ExitCode ==
    IF pc = "done" THEN 0
    ELSE IF err \in {"RouxError: latest", "RouxError: comments"} THEN 1
    ELSE 101

Terminated == pc \in {"done", "error"}

(***************************************************************************)
(* Properties of the run (Spec).                                           *)
(***************************************************************************)
\* Rendering the comment reaches an authored comment without a body: the
\* children of an authorless comment are never looked at.
RECURSIVE LacksBody(_)
LacksBody(comment) ==
    /\ comment.author.some
    /\ \/ ~comment.body.some
       \/ /\ comment.replies.kind = "Reply"
          /\ \E i \in 1..Len(comment.replies.children) :
                LacksBody(comment.replies.children[i])

ForestLacksBody(forest) == \E i \in 1..Len(forest) : LacksBody(forest[i])

\* A failure of the stages before the write has happened: a fetch was
\* answered with an error, or a forest received lacks a body.
FetchFailed == \E i \in 1..Len(responses) : ~responses[i].ok
BodyMissing == \E i \in 1..Len(received) : ForestLacksBody(received[i])

\* C1: once the listing fetch or a comment fetch has failed, or a comment
\* forest received holds an authored comment without a body, the run is in
\* the error state with that failure, which was the last thing to happen on
\* the network (no later post is fetched); no file exists, the write was
\* never called and the converter never invoked.
AtomicFailure ==
    (FetchFailed \/ BodyMissing) =>
        /\ pc = "error"
        /\ ExitCode # 0
        /\ Len(requests) = Len(responses)
        /\ \A i \in 1..(Len(responses) - 1) : responses[i].ok
        /\ \A i \in 1..(Len(received) - 1) : ~ForestLacksBody(received[i])
        /\ IF FetchFailed
           THEN err = "RouxError: " \o responses[Len(responses)].kind
           ELSE err = "panic: unwrap on a None body"
        /\ writes = <<>>
        /\ ~file.exists
        /\ converter_calls = 0
        /\ spawns = <<>>

\* C1 witness: the comment fetch of the second of two posts has failed.
AtomicFailureWitness ==
    /\ Len(latest) = 2
    /\ Len(responses) = 3
    /\ responses[2].ok
    /\ ~responses[3].ok
    /\ pc = "error"

\* C2: once the converter stage is entered and the converter fails to start,
\* exits with a non-zero status, or its argument string fails to tokenize,
\* the run is in the error state, with a non-zero exit status, never done;
\* with and without the verbose flag.
ConverterFailuresAreFatal ==
    /\ (\E i \in 1..Len(spawns) : ~spawns[i].started \/ spawns[i].status # 0)
          => (pc = "error" /\ ExitCode # 0)
    /\ (converter_calls > 0 /\ ~split(opts.converter_args).ok)
          => (pc = "error" /\ ExitCode # 0)

\* The path is a file name with a non-empty stem, a dot and "md".
HasMdExtension(path) ==
    /\ Len(path) >= 4
    /\ SubSeq(path, Len(path) - 2, Len(path)) = <<".", "m", "d">>

\* The words of the default converter arguments.
DefaultExtraArgs ==
    << <<"-", "-", "c", "h", "a", "p", "t", "e", "r">>,
       <<"/", "/", "h", ":", "h", "1">>,
       <<"-", "-", "s", "m", "a", "r", "t", "e", "n", "-", "p", "u", "n", "c", "t", "u", "a", "t", "i", "o", "n">>,
       <<"-", "-", "m", "a", "r", "k", "d", "o", "w", "n", "-", "e", "x", "t", "e", "n", "s", "i", "o", "n", "s">>,
       <<"m", "e", "t", "a">> >>

WriteSucceeded == writes # <<>> /\ writes[1].ok

AllFetchesSucceeded ==
    /\ pc \notin {"start", "await_latest", "await_comments"}
    /\ ~FetchFailed
    /\ Len(received) = Len(latest)

\* The requested path with its extension forced to md.
ForcedToMd(path) ==
    CASE path = <<"b", ".", "m", "d">> -> <<"b", ".", "m", "d">>
      [] path = <<"b", ".", "e", "p", "u", "b">> -> <<"b", ".", "m", "d">>
      [] path = <<"b">> -> <<"b", ".", "m", "d">>
      [] path = <<".", "m", "d">> -> <<".", "m", "d", ".", "m", "d">>
      [] path = <<"b", ".", "x", ".", "m", "d">> -> <<"b", ".", "x", ".", "m", "d">>

\* C4 as stated: in a run whose fetches have all succeeded and that has
\* ended, the intermediate file has been written exactly once, at the
\* requested path with its extension forced to md.
IntermediateAlwaysWritten ==
    (Terminated /\ AllFetchesSucceeded) =>
        /\ Len(writes) = 1
        /\ opts.output # <<>> => writes[1].path = ForcedToMd(opts.output)

\* C4 as amended: the write is called at most once; in a run whose fetches
\* have all succeeded, in which no rendered authored comment lacks a body,
\* and that has ended, it has been called exactly once, with the requested
\* path with its extension forced to md, whether or not the converter is
\* wanted; when creating and writing the file did not fail the file at that
\* path holds the cleaned document; and the document is the one that was
\* written for as long as the run goes on.
IntermediateWrittenOnce ==
    /\ Len(writes) <= 1
    /\ (Terminated /\ AllFetchesSucceeded /\ ~BodyMissing) => Len(writes) = 1
    /\ writes # <<>> =>
          /\ AllFetchesSucceeded /\ ~BodyMissing
          /\ opts.output # <<>> => writes[1].path = ForcedToMd(opts.output)
          /\ writes[1].text = clean_markdown(output)
          /\ IF writes[1].ok
             THEN /\ file = [exists |-> TRUE, path |-> writes[1].path,
                             content |-> writes[1].text]
                  /\ HasMdExtension(file.path)
             ELSE file.exists =>
                     /\ file.path = writes[1].path
                     /\ Len(file.content) < Len(writes[1].text)
    /\ writes = <<>> => ~file.exists

\* C4 witness: a run of two posts to b.md, where no conversion is wanted,
\* has written b.md and is done.
IntermediateWrittenWitness ==
    /\ pc = "done"
    /\ opts.output = <<"b", ".", "m", "d">>
    /\ Len(latest) = 2
    /\ converter_calls = 0
    /\ WriteSucceeded
    /\ file.path = <<"b", ".", "m", "d">>

\* The scenario of C8: one post titled Hello with the body World, whose only
\* comment is alice's Hi without replies, has been rendered.
HelloScenario ==
    /\ opts.subreddit = <<"e", "i", "n", "k">>
    /\ Len(latest) = 1
    /\ latest[1].title = <<"H", "e", "l", "l", "o">>
    /\ latest[1].selftext = <<"W", "o", "r", "l", "d">>
    /\ received = <<<<CommentAlice>>>>
    /\ idx = 2

HeaderBlock == <<"-", "-", "-", "\n", "t", "i", "t", "l", "e", ":", " ", "/", "r", "/", "e", "i", "n", "k", "\n", "-", "-", "-", "\n", "\n">>

\* Does pat occur in s?
Contains(s, pat) == NextMatch(s, pat, 1) # 0

\* C8 as stated: in the scenario the document is the header block, then
\* "\n\n> #Hello\nWorld", then a quoted block holding "alice -- " and "Hi";
\* and the converter is not invoked when the requested path has the md
\* extension.
HelloDocumentAsStated ==
    HelloScenario =>
        LET start == HeaderBlock \o <<"\n", "\n", ">", " ", "#", "H", "e", "l", "l", "o", "\n", "W", "o", "r", "l", "d">>
        IN  /\ Len(output) > Len(start)
            /\ SubSeq(output, 1, Len(start)) = start
            /\ Contains(SubSeq(output, Len(start) + 1, Len(output)),
                        <<"a", "l", "i", "c", "e", " ", "-", "-", " ">>)
            /\ Contains(SubSeq(output, Len(start) + 1, Len(output)), <<"H", "i">>)
            /\ HasMdExtension(opts.output) => spawns = <<>>

\* C8 as amended: in the scenario the document is the header block, then
\* "#Hello\nWorld", then the quoted comment block
\* ">\n>\n>** alice -- **\n>Hi\n>"; and the converter is not invoked when
\* the requested path has the md extension.
HelloDocument ==
    HelloScenario =>
        /\ output = HeaderBlock \o <<"#", "H", "e", "l", "l", "o", "\n", "W", "o", "r", "l", "d">>
                       \o <<">", "\n", ">", "\n", ">", "*", "*", " ", "a", "l", "i", "c", "e", " ", "-", "-", " ", "*", "*", "\n", ">", "H", "i", "\n", ">">>
        /\ HasMdExtension(opts.output) => (converter_calls = 0 /\ spawns = <<>>)

\* C8 witness: the scenario, written to b.md, is done.
HelloWitness ==
    /\ HelloScenario
    /\ pc = "done"
    /\ opts.output = <<"b", ".", "m", "d">>
    /\ file.exists

\* The number of posts whose text has been pushed on the document.
Rendered == IF idx = 0 THEN 0 ELSE idx - 1

\* The text of post i: its header and its comments at depth 0.
PostText(i) == parse_post_comments(received[i], 1, post_head(latest[i])).val

RECURSIVE PostTexts(_)
PostTexts(n) == IF n = 0 THEN <<>> ELSE PostTexts(n - 1) \o PostText(n)

\* The comment requests issued for the post with this id.
CommentRequests(id) ==
    {j \in 1..Len(requests) : requests[j].kind = "comments" /\ requests[j].id = id}

\* C10: at most one request is outstanding; every rendered post has had
\* exactly one comment request and no post more than one; while the request
\* for a post is outstanding, and at any other time, the document is the
\* header followed by the texts of the posts before it, in the order of the
\* listing; and the requests are the listing's, then one per post in the
\* order of the listing.
SequentialRendering ==
    /\ Outstanding \in {0, 1}
    /\ \A i \in 1..Rendered : Cardinality(CommentRequests(latest[i].id)) = 1
    /\ \A i \in 1..Len(latest) : Cardinality(CommentRequests(latest[i].id)) <= 1
    /\ \A j \in 2..Len(requests) :
          requests[j].kind = "comments" /\ requests[j].id = latest[j - 1].id
    /\ pc # "start" => output = Header(opts.subreddit) \o PostTexts(Rendered)
    /\ pc = "await_comments" =>
          /\ Rendered = Len(requests) - 2
          /\ requests[Len(requests)].id = latest[Rendered + 1].id
    /\ Len(requests) <= Rendered + 2

\* C10 witness: the request for the second post is outstanding and the
\* document holds the first post, which has comments.
SequentialWitness ==
    /\ pc = "await_comments"
    /\ idx = 2
    /\ received = <<<<CommentDeleted, CommentThread>>>>
    /\ Len(requests) = 3
    /\ Len(output) > Len(Header(opts.subreddit))

(***************************************************************************)
(* SpecQuote: quote applied repeatedly to a bounded text.                  *)
(***************************************************************************)
QuoteChars == {"a", "\n", ">"}

InitQuote ==
    /\ PipelineUnused
    /\ input \in SeqsUpTo(QuoteChars, MaxLen)
    /\ result = input
    /\ applied = 0

ApplyQuote ==
    /\ applied < MaxApply
    /\ result' = quote(result)
    /\ applied' = applied + 1
    /\ UNCHANGED <<input, pipeline_vars>>

NextQuote == ApplyQuote

SpecQuote == InitQuote /\ [][NextQuote]_vars

\* C9: after n applications of quote to a text of k lines, the result has
\* exactly k lines and line i is n quote markers followed by line i of the
\* text; in particular one application adds exactly one marker per line.
QuoteAddsOneMarkerPerLine ==
    /\ Len(Lines(result)) = Len(Lines(input))
    /\ \A i \in 1..Len(Lines(input)) :
          Lines(result)[i] = Markers(applied) \o Lines(input)[i]

\* C9 witness: a text of three lines, one of them already marked, quoted twice.
QuoteWitness ==
    /\ applied = 2
    /\ input = <<"a", "\n", "\n", ">">>
    /\ result = <<">", ">", "a", "\n", ">", ">", "\n", ">", ">", ">">>

(***************************************************************************)
(* SpecComment: parse_comment applied to every comment tree of at most     *)
(* MaxNodes nodes, at every starting depth up to MaxDepthArg.              *)
(***************************************************************************)
Authors == {None, Some(<<"a", "l">>)}
Bodies == {None, Some(<<"x", "\n", "y">>)}

RECURSIVE CommentsOfSize(_)
RECURSIVE ForestsOfSize(_)

\* The comment trees of exactly n nodes.
CommentsOfSize(n) ==
    {Comment(a, b, r) :
        a \in Authors, b \in Bodies,
        r \in IF n = 1
              THEN {NoReplies, StrReplies, Reply(<<>>)}
              ELSE {Reply(f) : f \in ForestsOfSize(n - 1)}}

\* The sequences of comment trees of exactly n nodes in all.
ForestsOfSize(n) ==
    IF n = 0 THEN {<<>>}
    ELSE UNION {{<<c>> \o f : c \in CommentsOfSize(k), f \in ForestsOfSize(n - k)} :
                   k \in 1..n}

CommentInputs == UNION {CommentsOfSize(n) : n \in 1..MaxNodes}

InitComment ==
    /\ PipelineUnused
    /\ input \in [comment : CommentInputs, depth : 0..MaxDepthArg]
    /\ result = <<>>
    /\ applied = 0

RenderComment ==
    /\ applied = 0
    /\ result' = parse_comment(input.comment, input.depth)
    /\ applied' = 1
    /\ UNCHANGED <<input, pipeline_vars>>

NextComment == RenderComment

SpecComment == InitComment /\ [][NextComment]_vars

\* Has the comment been rendered, without an author?
RenderedAuthorless == applied = 1 /\ ~input.comment.author.some

\* C5 as stated: a comment lacking an author renders to quote of the empty
\* string, whatever its depth, body and replies.
AuthorlessIsQuotedEmpty ==
    RenderedAuthorless => result = Ok(quote(<<>>))

\* C5 as amended: a comment lacking an author renders to quote of the two
\* newlines every comment block starts with, that is to three lines each
\* holding one quote marker, whatever its depth, body and replies.
AuthorlessIsQuotedSeparator ==
    RenderedAuthorless => result = Ok(<<">", "\n", ">", "\n", ">">>)

\* C5 witness: an authorless comment that has a body and a reply, rendered
\* at depth 1.
AuthorlessWitness ==
    /\ RenderedAuthorless
    /\ input.depth = 1
    /\ input.comment.body.some
    /\ input.comment.replies.kind = "Reply"
    /\ Len(input.comment.replies.children) = 1

\* The lines of a child's rendered text, each with one more quote marker.
NestedLines(text) ==
    [i \in 1..Len(Lines(text)) |-> <<">">> \o Lines(text)[i]]

\* Do the lines of block stand in L from line p on?
BlockAt(L, block, p) ==
    /\ p + Len(block) - 1 <= Len(L)
    /\ \A j \in 1..Len(block) : L[p + j - 1] = block[j]

\* From line `from` on, L holds the nested lines of children i, i+1, ... one
\* block after the other, in this order.
RECURSIVE ChildrenNestedFrom(_, _, _, _, _)
ChildrenNestedFrom(L, children, depth, i, from) ==
    IF i > Len(children) THEN TRUE
    ELSE LET block == NestedLines(parse_comment(children[i], depth + 1).val)
         IN  \E p \in from..Len(L) :
                /\ BlockAt(L, block, p)
                /\ ChildrenNestedFrom(L, children, depth, i + 1, p + Len(block))

\* Has an authored comment been rendered, without a panic?
RenderedAuthored == applied = 1 /\ input.comment.author.some /\ result.ok

\* C6: the rendering of an authored comment whose replies are a reply-list
\* holds the rendered text of every child, in the order supplied, every line
\* of it with exactly one more quote marker; with the Str sentinel or no
\* replies nothing follows the body.
ChildrenNestedInOrder ==
    RenderedAuthored =>
        IF input.comment.replies.kind = "Reply"
        THEN ChildrenNestedFrom(Lines(result.val), input.comment.replies.children,
                                input.depth, 1, 1)
        ELSE result.val =
                quote(comment_head(input.comment.author.val, input.comment.body.val))

(***************************************************************************)
(* SpecClean: clean_markdown applied to texts made of at most MaxChunks    *)
(* chunks: the artifact, its two halves, another entity, a letter, a       *)
(* newline.                                                                *)
(***************************************************************************)
Chunks ==
    { Artifact,
      <<"&", "a", "m", "p", ";">>,
      <<"#", "x", "2", "0", "0", "B", ";">>,
      <<"&", "l", "t", ";">>,
      <<"a">>,
      NL }

RECURSIVE Flatten(_)
Flatten(ss) == IF ss = <<>> THEN <<>> ELSE Head(ss) \o Flatten(Tail(ss))

CleanInputs == {Flatten(cs) : cs \in SeqsUpTo(Chunks, MaxChunks)}

InitClean ==
    /\ PipelineUnused
    /\ input \in CleanInputs
    /\ result = <<>>
    /\ applied = 0

ApplyClean ==
    /\ applied = 0
    /\ result' = clean_markdown(input)
    /\ applied' = 1
    /\ UNCHANGED <<input, pipeline_vars>>

NextClean == ApplyClean

SpecClean == InitClean /\ [][NextClean]_vars

\* The positions where the artifact starts in s.
Occurrences(s) == {i \in 1..Len(s) : MatchAt(s, Artifact, i)}

\* Position i of s lies inside an occurrence, after its first character.
InsideOccurrence(s, i) ==
    \E j \in Occurrences(s) : j < i /\ i < j + Len(Artifact)

\* s with a newline in place of every occurrence and every other character
\* kept: the positions kept are those outside the occurrences and the first
\* of each occurrence, in their order.
ArtifactsAsNewlines(s) ==
    LET kept == {i \in 1..Len(s) : ~InsideOccurrence(s, i)}
        pos(k) == CHOOSE i \in kept : Cardinality({j \in kept : j <= i}) = k
    IN  [k \in 1..Cardinality(kept) |->
            IF pos(k) \in Occurrences(s) THEN "\n" ELSE s[pos(k)]]

\* C7: the cleaned text is the text with every occurrence of the artifact
\* replaced by one newline and every other character kept; no occurrence is
\* left, and a text without the artifact is unchanged.
CleanupReplacesOnlyArtifact ==
    applied = 1 =>
        /\ result = ArtifactsAsNewlines(input)
        /\ Occurrences(result) = {}
        /\ (Occurrences(input) = {} => result = input)

\* C7 witness: a text with two occurrences around another entity.
CleanupWitness ==
    /\ applied = 1
    /\ input = Artifact \o <<"&", "l", "t", ";">> \o Artifact
    /\ result = <<"\n", "&", "l", "t", ";", "\n">>

====
